---- MODULE Spec2Model ----
(***************************************************************************)
(* Model of blend_diff: the reference-graph analyzer (BlendFileInverses),  *)
(* the patch engine (BlendPatch) and the identity snapshot (get_id_data).  *)
(*                                                                         *)
(* A snapshot is the list of file-blocks of one loaded .blend file plus    *)
(* the value stored at every leaf field of every block item.  The          *)
(* reflection catalog (DNA) is a fixed small catalog that has every shape  *)
(* the walker distinguishes: a skipped struct at index 0, a pointer whose  *)
(* declared type has fields, an array of pointers, an array of inline      *)
(* structs, inert scalars, and a field named id that is not an ID struct.  *)
(***************************************************************************)
EXTENDS Integers, Sequences, FiniteSets, TLC

\* ------------------------------------------------------------------ bounds
MaxBlocks == 2
MaxAddr == 2
MaxPtrs == 2

VARIABLES
    blocks,             \* bf.blocks: file-blocks in file order
    data,               \* stored value of every leaf field of every block item
    tell,               \* read position of bf.fileobj
    inverses,           \* BlendFileInverses.inverses, in key insertion order
    homeless_addresses, \* BlendFileInverses.homeless_addresses
    orphaned,           \* the orphaned list of the last completed check_inverses
    scan,               \* per visited block: used_addresses and the finding printed
    id_data,            \* the list get_id_data returned last
    lastOp,             \* the operation that ran last
    afterCheck          \* lastOp ran right after a completed check_inverses

vars == <<blocks, data, tell, inverses, homeless_addresses, orphaned, scan,
          id_data, lastOp, afterCheck>>

\* ------------------------------------------------------- reflection catalog
\* One path segment: a field name or an array index (TailType members).
Name(n) == [name |-> n, index |-> -1]
Index(i) == [name |-> "", index |-> i]
IsIndex(seg) == seg.index >= 0

\* blendfile.dna.Field: name.name_only, name.is_pointer, name.array_size, dna_type
Field(n, p, a, t) == [name_only |-> n, is_pointer |-> p, array_size |-> a, dna_type |-> t]

\* bf.structs, by sdna_index.
Structs == [i \in 0..4 |->
    CASE i = 0 -> [dna_type_id |-> "Link",
                   fields |-> <<Field("next", TRUE, 1, "Link")>>]
      [] i = 1 -> [dna_type_id |-> "ID",
                   fields |-> <<Field("next", TRUE, 1, "ID"),
                                Field("name", FALSE, 66, "char"),
                                Field("session_uid", FALSE, 1, "int")>>]
      [] i = 2 -> [dna_type_id |-> "ListBase",
                   fields |-> <<Field("first", TRUE, 1, "void")>>]
      [] i = 3 -> [dna_type_id |-> "Object",
                   fields |-> <<Field("id", FALSE, 1, "ID"),
                                Field("mat", TRUE, 2, "Material")>>]
      [] i = 4 -> [dna_type_id |-> "Holder",
                   fields |-> <<Field("lb", FALSE, 2, "ListBase"),
                                Field("id", FALSE, 1, "int")>>]]

\* field.dna_type.fields: the fields of a declared type, empty for a basic type.
TypeFields(t) ==
    IF \E i \in DOMAIN Structs : Structs[i].dna_type_id = t
    THEN Structs[CHOOSE i \in DOMAIN Structs : Structs[i].dna_type_id = t].fields
    ELSE <<>>

\* struct._fields_by_name.get(name)
FieldByName(fields, n) ==
    IF \E k \in 1..Len(fields) : fields[k].name_only = n
    THEN <<fields[CHOOSE k \in 1..Len(fields) : fields[k].name_only = n]>>
    ELSE <<>>

RECURSIVE Concat(_)
Concat(ss) == IF ss = <<>> THEN <<>> ELSE Head(ss) \o Concat(Tail(ss))

Range(s) == {s[k] : k \in 1..Len(s)}
\* ------------------------------------------------------ stored field values
\* Every leaf location of a struct: one per pointer array element, one per
\* inert (basic-typed) field; inline structs are descended into.
RECURSIVE Leaves(_, _)
Leaves(fields, tail) ==
    Concat([k \in 1..Len(fields) |->
        LET f == fields[k]
            sub == TypeFields(f.dna_type)
            tail1 == Append(tail, Name(f.name_only))
            at(ai) == IF f.array_size = 1 THEN tail1 ELSE Append(tail1, Index(ai))
        IN  IF f.is_pointer
            THEN [a \in 1..f.array_size |-> [path |-> at(a - 1), is_pointer |-> TRUE]]
            ELSE IF sub = <<>>
            THEN <<[path |-> tail1, is_pointer |-> FALSE]>>
            ELSE Concat([a \in 1..f.array_size |-> Leaves(sub, at(a - 1))])])

BlockFields(blks, b) == Structs[blks[b].sdna_index].fields

\* The cells <<block, item, path>> of a block list.
CellsOf(blks, pointers) ==
    UNION {{<<b, i, l.path>> : l \in {x \in Range(Leaves(BlockFields(blks, b), <<>>)) :
                                        x.is_pointer = pointers},
                               i \in 0..(blks[b].count - 1)} : b \in 1..Len(blks)}

\* Struct.field_from_path: the location a path names in a struct, or <<>> when
\* the lookup raises.  An index segment may follow a name and defaults to 0.
RECURSIVE Resolve(_, _, _)
Resolve(fields, path, acc) ==
    IF path = <<>> \/ IsIndex(Head(path)) \/ FieldByName(fields, Head(path).name) = <<>>
    THEN <<>>
    ELSE LET f == FieldByName(fields, Head(path).name)[1]
             sub == TypeFields(f.dna_type)
             hasIdx == Len(path) >= 2 /\ IsIndex(path[2])
             idx == IF hasIdx THEN path[2].index ELSE 0
             rest == IF hasIdx THEN SubSeq(path, 3, Len(path)) ELSE Tail(path)
             leaf == f.is_pointer \/ sub = <<>>
             acc1 == IF f.array_size = 1 \/ (leaf /\ ~f.is_pointer)
                     THEN Append(acc, Name(f.name_only))
                     ELSE Append(Append(acc, Name(f.name_only)), Index(idx))
         IN  IF idx >= f.array_size THEN <<>>
             ELSE IF rest = <<>> THEN (IF leaf THEN acc1 ELSE <<>>)
             ELSE IF leaf THEN <<>>
             ELSE Resolve(sub, rest, acc1)

CellOf(b, i, path) == <<b, i, Resolve(BlockFields(blocks, b), path, <<>>)>>

\* block.get(path, block_item_index=i)
Get(d, b, i, path) ==
    IF CellOf(b, i, path) \in DOMAIN d THEN d[CellOf(b, i, path)] ELSE 0

\* block.set(path, block_item_index=i, value=v) raises when the path is not
\* a field of the block's struct.
SetRaises(d, b, i, path) == CellOf(b, i, path) \notin DOMAIN d
SetField(d, b, i, path, v) == [d EXCEPT ![CellOf(b, i, path)] = v]

\* The read position get/set leave the file at: right after the field.
Start == [at |-> "start", cell |-> <<0, 0, <<>>>>]
End == [at |-> "end", cell |-> <<0, 0, <<>>>>]
After(b, i, path) == [at |-> "field", cell |-> CellOf(b, i, path)]
\* The position a set that raises leaves the file at: block.set seeks to the
\* block's data before it looks the path up.
BlockStart(b) == [at |-> "block", cell |-> <<b, 0, <<>>>>]

\* ------------------------------------------------------- BlendFileInverses
Inverse(address, block_item_index, dna_type_id, path) ==
    [address |-> address, block_item_index |-> block_item_index,
     dna_type_id |-> dna_type_id, path |-> path]

\* Mutant of SingleItem: the index is appended for scalar fields too.
SingleItemNever(field) == FALSE

\* line 49: single_item
SingleItem(field) == field.array_size = 1

\* Mutant of IsNull: the null test is dropped.
IsNullNever(value) == FALSE

\* line 60: not value
IsNull(value) == value = 0

\* check_block_field: the pointer leaves visited under one field of one block
\* item, in visiting order, each with the value read and whether an Inverse
\* is recorded for it.
RECURSIVE check_block_field(_, _, _, _, _)
check_block_field(d, b, i, field, tail) ==
    LET fields == TypeFields(field.dna_type)
        is_pointer == field.is_pointer
    IN  IF fields = <<>> /\ ~is_pointer THEN <<>>
        ELSE LET tail1 == Append(tail, Name(field.name_only))
                 item(ai) ==
                     LET tail_ == IF SingleItem(field) THEN tail1
                                  ELSE Append(tail1, Index(ai))
                     IN  IF is_pointer
                         THEN <<[block |-> b, item |-> i, path |-> tail_,
                                 value |-> Get(d, b, i, tail_),
                                 recorded |-> ~IsNull(Get(d, b, i, tail_))]>>
                         ELSE Concat([k \in 1..Len(fields) |->
                                 check_block_field(d, b, i, fields[k], tail_)])
             IN  Concat([a \in 1..field.array_size |-> item(a - 1)])

\* line 85: blocks of struct index 0 are skipped.
Skipped(block) == block.sdna_index = 0

\* lines 78-89: every pointer leaf visited by the pass over all blocks.
Visits(d) ==
    Concat([b \in 1..Len(blocks) |->
        IF Skipped(blocks[b]) THEN <<>>
        ELSE Concat([i1 \in 1..blocks[b].count |->
                Concat([k \in 1..Len(BlockFields(blocks, b)) |->
                    check_block_field(d, b, i1 - 1, BlockFields(blocks, b)[k], <<>>)])])])
\* The inverses defaultdict as a list of [key, refs] in key insertion order.
DictKeys(m) == {m[k].key : k \in 1..Len(m)}
DictGet(m, a) ==
    IF a \in DictKeys(m) THEN m[CHOOSE k \in 1..Len(m) : m[k].key = a].refs ELSE {}
\* defaultdict.__getitem__: reading a missing key inserts it with an empty set.
DictTouch(m, a) == IF a \in DictKeys(m) THEN m ELSE Append(m, [key |-> a, refs |-> {}])
\* line 62: self.inverses[value].add(inverse)
DictAdd(m, a, r) ==
    [k \in 1..Len(DictTouch(m, a)) |->
        IF DictTouch(m, a)[k].key = a
        THEN [key |-> a, refs |-> DictTouch(m, a)[k].refs \cup {r}]
        ELSE DictTouch(m, a)[k]]

\* line 76: inverses.clear()
Clear(m) == <<>>

\* line 62 over all visited leaves: one Inverse per recorded leaf.
RECURSIVE AddAll(_, _)
AddAll(m, visits) ==
    IF visits = <<>> THEN m
    ELSE LET v == Head(visits)
             r == Inverse(blocks[v.block].addr_old, v.item,
                          Structs[blocks[v.block].sdna_index].dna_type_id, v.path)
         IN  AddAll(IF v.recorded THEN DictAdd(m, v.value, r) ELSE m, Tail(visits))

\* lines 99-100, 121: inverses[block.addr_old] for every block.
RECURSIVE TouchAll(_, _)
TouchAll(m, b) ==
    IF b > Len(blocks) THEN m ELSE TouchAll(DictTouch(m, blocks[b].addr_old), b + 1)

\* bf.block_from_addr: filled while loading, a later block replaces an earlier
\* one of the same address.
block_from_addr ==
    [a \in {blocks[b].addr_old : b \in 1..Len(blocks)} |->
        CHOOSE b \in 1..Len(blocks) :
            /\ blocks[b].addr_old = a
            /\ \A c \in 1..Len(blocks) : blocks[c].addr_old = a => c <= b]

\* line 121: orphaned, as block positions in file order.
Orphaned(m) ==
    LET pick(b) == DictGet(m, blocks[b].addr_old) = {}
    IN  SelectSeq([b \in 1..Len(blocks) |-> b], pick)

\* Mutant of Homeless: only blocks of a positive address count as owners.
HomelessPositive(m) ==
    LET pick(a) == ~\E b \in 1..Len(blocks) : blocks[b].addr_old = a /\ a > 0
    IN  SelectSeq([k \in 1..Len(m) |-> m[k].key], pick)

\* line 127: the keys of inverses that are no block's address, in key order.
Homeless(m) ==
    LET pick(a) == a \notin DOMAIN block_from_addr
    IN  SelectSeq([k \in 1..Len(m) |-> m[k].key], pick)

\* Mutant of StoreHomeless: the list is extended instead of replaced.
StoreHomelessExtend(old, new) == old \o new

\* line 128: self.homeless_addresses = homeless_addresses
StoreHomeless(old, new) == new

\* Mutant of IsOdd: address 0 passes as a regular address.
IsOddStrict(address) == address < 0

\* line 137: address <= 0
IsOdd(address) == address <= 0

\* lines 135-146: one step of the address validation scan.
ScanStep(used, b) ==
    LET address == blocks[b].addr_old
    IN  IF IsOdd(address) THEN [used |-> used, finding |-> "odd"]
        ELSE IF address \in DOMAIN used THEN [used |-> used, finding |-> "collision"]
        ELSE [used |-> [a \in DOMAIN used \cup {address} |->
                            IF a = address THEN b ELSE used[a]],
              finding |-> "ok"]

RECURSIVE ScanFrom(_, _)
ScanFrom(used, b) ==
    IF b > Len(blocks) THEN <<>>
    ELSE <<ScanStep(used, b)>> \o ScanFrom(ScanStep(used, b).used, b + 1)

EmptyMap == [a \in {} |-> 0]

Checked == lastOp = "check_inverses"

\* check_inverses.  readFails: bf.fileobj.read() raises.
CheckInverses(readFails) ==
    \E visits \in {Visits(data)} :
    \E built \in {AddAll(Clear(inverses), visits)} :
    \E touched \in {TouchAll(built, 1)} :
    \E walked \in {IF visits = <<>> THEN tell
                   ELSE After(visits[Len(visits)].block, visits[Len(visits)].item,
                              visits[Len(visits)].path)} :
        /\ afterCheck' = Checked
        /\ UNCHANGED <<blocks, data, id_data>>
        /\ IF readFails
           THEN /\ inverses' = built
                /\ tell' = Start
                /\ lastOp' = "check_inverses raised"
                /\ UNCHANGED <<homeless_addresses, orphaned, scan>>
           ELSE /\ inverses' = touched
                /\ tell' = walked
                /\ orphaned' = Orphaned(touched)
                /\ homeless_addresses' = StoreHomeless(homeless_addresses, Homeless(touched))
                /\ scan' = ScanFrom(EmptyMap, 1)
                /\ lastOp' = "check_inverses"

\* ---------------------------------------------------------------- BlendPatch
\* lines 177-178: the field an Inverse makes nullify_homeless_addresses write:
\* the block is looked up again by the recorded address.
Target(r) == [block |-> block_from_addr[r.address], item |-> r.block_item_index,
              path |-> r.path]

RECURSIVE WriteAll(_, _)
WriteAll(d, jobs) ==
    IF jobs = {} THEN d
    ELSE LET j == CHOOSE x \in jobs : TRUE
         IN  WriteAll(SetField(d, j.block, j.item, j.path, 0), jobs \ {j})

Tells(t, jobs) == IF jobs = {} THEN {t} ELSE {After(j.block, j.item, j.path) : j \in jobs}

\* lines 174-179 from the k-th homeless address on: the states the loops can end
\* in.  The Inverse set of one address is iterated in no fixed order, so when a
\* set raises any subset of the other writes of that address can precede it;
\* the raising set has already moved the read position to its block.
RECURSIVE NullifyFrom(_, _)
NullifyFrom(st, k) ==
    IF k > Len(homeless_addresses) THEN {st}
    ELSE LET addr == homeless_addresses[k]
             jobs == {Target(r) : r \in DictGet(st.inverses, addr)}
             bad == {j \in jobs : SetRaises(st.data, j.block, j.item, j.path)}
             m == DictTouch(st.inverses, addr)
         IN  IF bad = {}
             THEN UNION {NullifyFrom([data |-> WriteAll(st.data, jobs), inverses |-> m,
                                      tell |-> t, raised |-> FALSE], k + 1) :
                         t \in Tells(st.tell, jobs)}
             ELSE UNION {{[data |-> WriteAll(st.data, W), inverses |-> m,
                           tell |-> BlockStart(j.block), raised |-> TRUE] : j \in bad} :
                         W \in SUBSET (jobs \ bad)}

\* BlendPatch.nullify_homeless_addresses
NullifyHomelessAddresses ==
    \E st \in NullifyFrom([data |-> data, inverses |-> inverses, tell |-> tell,
                           raised |-> FALSE], 1) :
        /\ data' = st.data
        /\ inverses' = st.inverses
        /\ tell' = st.tell
        /\ lastOp' = IF st.raised THEN "nullify_homeless_addresses raised"
                     ELSE "nullify_homeless_addresses"
        /\ afterCheck' = Checked
        /\ UNCHANGED <<blocks, homeless_addresses, orphaned, scan, id_data>>

\* is_id_block(bf, sdna_index)
is_id_block(sdna_index) ==
    LET field == FieldByName(Structs[sdna_index].fields, "id")
    IN  IF field = <<>> THEN FALSE ELSE field[1].dna_type = "ID"

\* Mutant of SessionUidPath: another field of the ID struct is written.
SessionUidPathNext == <<Name("id"), Name("next")>>

\* line 199: the path nullify_session_uids writes.
SessionUidPath == <<Name("id"), Name("session_uid")>>

\* lines 195-199 from block b on.
RECURSIVE NullifyUidsFrom(_, _)
NullifyUidsFrom(st, b) ==
    IF b > Len(blocks) THEN st
    ELSE IF ~is_id_block(blocks[b].sdna_index) THEN NullifyUidsFrom(st, b + 1)
    ELSE IF SetRaises(st.data, b, 0, SessionUidPath)
         THEN [st EXCEPT !.raised = TRUE, !.tell = BlockStart(b)]
    ELSE NullifyUidsFrom([data |-> SetField(st.data, b, 0, SessionUidPath, 0),
                          tell |-> After(b, 0, SessionUidPath),
                          raised |-> FALSE], b + 1)

\* BlendPatch.nullify_session_uids
NullifySessionUids ==
    LET st == NullifyUidsFrom([data |-> data, tell |-> tell, raised |-> FALSE], 1)
    IN  /\ data' = st.data
        /\ tell' = st.tell
        /\ lastOp' = IF st.raised THEN "nullify_session_uids raised"
                     ELSE "nullify_session_uids"
        /\ afterCheck' = Checked
        /\ UNCHANGED <<blocks, inverses, homeless_addresses, orphaned, scan, id_data>>

\* ------------------------------------------------------------- get_id_data
NamePath == <<Name("id"), Name("name")>>

\* str((code, name)) of a pair of bytes objects.
Str(code, name) == "(b'" \o code \o "', b'" \o name \o "')"

\* Mutant of IdFileBlocks: the ID file-blocks in reverse file order.
IdFileBlocksReversed ==
    LET pick(b) == \E k \in 1..Len(Structs[blocks[b].sdna_index].fields) :
                      /\ Structs[blocks[b].sdna_index].fields[k].name_only = "id"
                      /\ Structs[blocks[b].sdna_index].fields[k].dna_type = "ID"
    IN  SelectSeq([b \in 1..Len(blocks) |-> Len(blocks) + 1 - b], pick)

\* line 29: the ID file-blocks, in file order.
IdFileBlocks ==
    LET pick(b) == is_id_block(blocks[b].sdna_index)
    IN  SelectSeq([b \in 1..Len(blocks) |-> b], pick)

\* get_id_data(path): the file is opened again, bf.fileobj is not touched.
GetIdData ==
    /\ id_data' = [k \in 1..Len(IdFileBlocks) |->
                      Str(blocks[IdFileBlocks[k]].code, Get(data, IdFileBlocks[k], 0, NamePath))]
    /\ lastOp' = "get_id_data"
    /\ afterCheck' = Checked
    /\ UNCHANGED <<blocks, data, tell, inverses, homeless_addresses, orphaned, scan>>

\* ------------------------------------------------------------ the snapshots
Addrs == 0..MaxAddr
BlockTypes == {0, 3, 4}
Codes == {"OB", "ME"}
Names == {"OBCube", "MELamp"}
Uids == {0, 7}

\* Blocks of an array-of-struct type hold two items.
CountOf(sdna_index) == IF sdna_index = 4 THEN 2 ELSE 1

Block(a, t, c) == [addr_old |-> a, sdna_index |-> t, code |-> c, count |-> CountOf(t)]

RefBlocks == {Block(a, t, IF is_id_block(t) THEN "OB" ELSE "DATA") :
                 a \in Addrs, t \in BlockTypes}
DiffBlocks == {Block(1, t, c) : t \in BlockTypes \ {3}, c \in {"DATA"}}
                  \cup {Block(1, 3, c) : c \in Codes}

BlockLists(S) == UNION {[1..n -> S] : n \in 1..MaxBlocks}

\* The value an inert field holds.
Scalar(cell, name, uid) ==
    LET last == cell[3][Len(cell[3])].name
    IN  IF last = "name" THEN name[cell[1]]
        ELSE IF last = "session_uid" THEN uid[cell[1]]
        ELSE 5

InitCommon ==
    /\ tell = End
    /\ inverses = <<>>
    /\ homeless_addresses = <<>>
    /\ orphaned = <<>>
    /\ scan = <<>>
    /\ id_data = <<>>
    /\ lastOp = "load"
    /\ afterCheck = FALSE

\* Snapshots for the reference graph: any addresses, at most MaxPtrs pointers set.
Init ==
    /\ blocks \in BlockLists(RefBlocks)
    /\ \E set \in {S \in SUBSET CellsOf(blocks, TRUE) : Cardinality(S) <= MaxPtrs} :
       \E val \in [set -> Addrs \ {0}] :
          data = [c \in CellsOf(blocks, TRUE) \cup CellsOf(blocks, FALSE) |->
                    IF c \in set THEN val[c]
                    ELSE IF c \in CellsOf(blocks, TRUE) THEN 0
                    ELSE Scalar(c, [b \in 1..Len(blocks) |-> "OBCube"],
                                   [b \in 1..Len(blocks) |-> 7])]
    /\ InitCommon

\* Snapshots for the identity data: any codes, names and session uids.
InitDiff ==
    /\ blocks \in BlockLists(DiffBlocks)
    /\ \E name \in [1..Len(blocks) -> Names], uid \in [1..Len(blocks) -> Uids] :
          data = [c \in CellsOf(blocks, TRUE) \cup CellsOf(blocks, FALSE) |->
                    IF c \in CellsOf(blocks, TRUE) THEN 0 ELSE Scalar(c, name, uid)]
    /\ InitCommon

Next ==
    \/ \E readFails \in BOOLEAN : CheckInverses(readFails)
    \/ NullifyHomelessAddresses

NextDiff ==
    \/ GetIdData
    \/ NullifySessionUids

Spec == Init /\ [][Next]_vars
SpecDiff == InitDiff /\ [][NextDiff]_vars
\* =================================================================== claims
HasBlockAt(a) == \E b \in 1..Len(blocks) : blocks[b].addr_old = a
TypeId(b) == Structs[blocks[b].sdna_index].dna_type_id
PointerCells == CellsOf(blocks, TRUE)
\* The Inverse that a pointer cell of a block stands for.
InverseAt(cell) == Inverse(blocks[cell[1]].addr_old, cell[2], TypeId(cell[1]), cell[3])
\* A block whose struct has a field named id of declared type ID.
IdBearing(b) ==
    \E k \in 1..Len(BlockFields(blocks, b)) :
        /\ BlockFields(blocks, b)[k].name_only = "id"
        /\ BlockFields(blocks, b)[k].dna_type = "ID"
NullifiedHomeless == lastOp = "nullify_homeless_addresses"

\* C1 (as claimed): check_inverses, then nullify_homeless_addresses, then
\* check_inverses again: no address that was homeless before the patch has an
\* Inverse in the rebuilt map or is homeless again.
C1_PatchClearsHomeless ==
    [][(NullifiedHomeless /\ afterCheck /\ lastOp' = "check_inverses")
        => \A a \in Range(homeless_addresses) :
              /\ DictGet(inverses', a) = {}
              /\ a \notin Range(homeless_addresses')]_vars

\* C2: right after check_inverses a block is counted as orphaned iff no Inverse
\* is stored under its address, and a key of the map is homeless iff no block
\* has that address.
C2_OrphanHomelessDuality ==
    Checked =>
        /\ \A b \in 1..Len(blocks) :
              (b \in Range(orphaned)) <=> (DictGet(inverses, blocks[b].addr_old) = {})
        /\ \A a \in DictKeys(inverses) :
              (a \in Range(homeless_addresses)) <=> ~HasBlockAt(a)
C2_Witness ==
    /\ Checked
    /\ homeless_addresses # <<>>
    /\ orphaned # <<>>
    /\ \E b \in 1..Len(blocks) : b \notin Range(orphaned)
    /\ \E a \in DictKeys(inverses) : HasBlockAt(a)

\* C3: a check_inverses that directly follows a completed check_inverses
\* leaves the same keys, the same Inverse set under every key and the same
\* homeless_addresses list.
C3_CheckTwiceSame ==
    [][(Checked /\ lastOp' = "check_inverses")
        => /\ DictKeys(inverses') = DictKeys(inverses)
           /\ \A a \in DictKeys(inverses) : DictGet(inverses', a) = DictGet(inverses, a)
           /\ homeless_addresses' = homeless_addresses]_vars
C3_Witness ==
    /\ Checked
    /\ afterCheck
    /\ homeless_addresses # <<>>
    /\ \E a \in DictKeys(inverses) : HasBlockAt(a) /\ DictGet(inverses, a) # {}

\* C4: nullify_session_uids makes (id, session_uid) read 0 in every block whose
\* struct has a field id of type ID and changes no other field of any block.
C4_SessionUidFrame ==
    [][(lastOp' \in {"nullify_session_uids", "nullify_session_uids raised"})
        => \A cell \in DOMAIN data :
              IF IdBearing(cell[1]) /\ cell[2] = 0 /\ cell[3] = <<Name("id"), Name("session_uid")>>
              THEN data'[cell] = 0
              ELSE data'[cell] = data[cell]]_vars
C4_Witness ==
    /\ lastOp = "nullify_session_uids"
    /\ \E b \in 1..Len(blocks) :
          IdBearing(b) /\ data[<<b, 0, <<Name("id"), Name("session_uid")>>>>] = 0
    /\ \E b \in 1..Len(blocks) :
          blocks[b].sdna_index = 4 /\ data[<<b, 0, <<Name("id")>>>>] = 5

\* C5 (as claimed): check_inverses leaves the read position of bf.fileobj where
\* it was, on every exit path.
C5_TellRestored ==
    [][(lastOp' \in {"check_inverses", "check_inverses raised"}) => tell' = tell]_vars

\* C6 (as claimed): after check_inverses address 0 is not a key of the map and
\* no Inverse exists for a pointer field that stores 0.
C6_ZeroNotAKey ==
    Checked =>
        /\ 0 \notin DictKeys(inverses)
        /\ \A cell \in PointerCells :
              data[cell] = 0 => \A a \in DictKeys(inverses) : InverseAt(cell) \notin DictGet(inverses, a)
\* C6 (amended): after check_inverses no Inverse is stored under address 0 and
\* every stored Inverse is for a pointer field that stores its non-zero key;
\* address 0 is a key, with an empty set, exactly when a block has addr_old 0.
C6_NoInverseForNull ==
    Checked =>
        /\ DictGet(inverses, 0) = {}
        /\ (0 \in DictKeys(inverses)) <=> HasBlockAt(0)
        /\ \A a \in DictKeys(inverses) : \A r \in DictGet(inverses, a) :
              /\ a # 0
              /\ \E cell \in PointerCells : InverseAt(cell) = r /\ data[cell] = a
C6_Witness ==
    /\ Checked
    /\ 0 \in DictKeys(inverses)
    /\ \E cell \in PointerCells : ~Skipped(blocks[cell[1]]) /\ data[cell] = 0
    /\ \E a \in DictKeys(inverses) : DictGet(inverses, a) # {}

\* C7: get_id_data returns one rendered (code, id.name) pair per identity
\* bearing block, in file order, nothing dropped, merged or reordered.
C7_IdDataInFileOrder ==
    lastOp = "get_id_data" =>
        /\ Len(id_data) = Cardinality({b \in 1..Len(blocks) : IdBearing(b)})
        /\ \A b \in 1..Len(blocks) :
              IdBearing(b) =>
                 id_data[Cardinality({c \in 1..b : IdBearing(c)})]
                    = "(b'" \o blocks[b].code \o "', b'"
                        \o data[<<b, 0, <<Name("id"), Name("name")>>>>] \o "')"
C7_Witness ==
    /\ lastOp = "get_id_data"
    /\ Len(id_data) = 2
    /\ id_data[1] # id_data[2]

\* The shape of a recorded path: a name per field, an index after it iff the
\* field is an array, nothing after a pointer field, only structs in between.
RECURSIVE PathShape(_, _)
PathShape(fields, path) ==
    /\ path # <<>>
    /\ ~IsIndex(Head(path))
    /\ FieldByName(fields, Head(path).name) # <<>>
    /\ LET f == FieldByName(fields, Head(path).name)[1]
           indexed == Len(path) >= 2 /\ IsIndex(path[2])
           rest == IF indexed THEN SubSeq(path, 3, Len(path)) ELSE Tail(path)
       IN  /\ indexed <=> f.array_size > 1
           /\ indexed => path[2].index < f.array_size
           /\ IF f.is_pointer THEN rest = <<>>
              ELSE TypeFields(f.dna_type) # <<>> /\ PathShape(TypeFields(f.dna_type), rest)

\* C8: a pointer field is a leaf of the walk: every recorded path ends at its
\* first pointer segment and carries an index exactly after array fields, and
\* right after check_inverses every pointer leaf of a walked block has one
\* Inverse, under its value, when it is not null and none when it is null.
C8_PointerIsLeaf ==
    /\ \A a \in DictKeys(inverses) : \A r \in DictGet(inverses, a) :
          \E b \in 1..Len(blocks) :
             /\ blocks[b].addr_old = r.address
             /\ TypeId(b) = r.dna_type_id
             /\ r.block_item_index < blocks[b].count
             /\ PathShape(BlockFields(blocks, b), r.path)
    /\ Checked =>
          \A cell \in PointerCells :
             ~Skipped(blocks[cell[1]]) =>
                {a \in DictKeys(inverses) : a = data[cell] /\ InverseAt(cell) \in DictGet(inverses, a)}
                   = IF data[cell] = 0 THEN {} ELSE {data[cell]}
C8_Witness ==
    /\ Checked
    /\ \E a \in DictKeys(inverses) : \E r \in DictGet(inverses, a) :
          r.path = <<Name("id"), Name("next")>>
    /\ \E a \in DictKeys(inverses) : \E r \in DictGet(inverses, a) :
          r.path = <<Name("lb"), Index(1), Name("first")>> /\ r.block_item_index = 1

\* C9: the address validation scan visits every block in file order; after
\* each block used_addresses maps every positive address seen so far to the
\* first block that has it; a block of address <= 0 is reported odd and a
\* block of an address already seen is reported a collision.
C9_ScanKeepsFirst ==
    scan # <<>> =>
        /\ Len(scan) = Len(blocks)
        /\ \A n \in 1..Len(blocks) :
              /\ DOMAIN scan[n].used = {blocks[b].addr_old : b \in {c \in 1..n : blocks[c].addr_old > 0}}
              /\ \A a \in DOMAIN scan[n].used :
                    /\ blocks[scan[n].used[a]].addr_old = a
                    /\ \A c \in 1..n : blocks[c].addr_old = a => scan[n].used[a] <= c
              /\ (scan[n].finding = "odd") <=> (blocks[n].addr_old <= 0)
              /\ (scan[n].finding = "collision") <=>
                    (blocks[n].addr_old > 0 /\ \E c \in 1..(n - 1) : blocks[c].addr_old = blocks[n].addr_old)
C9_Witness ==
    /\ Checked
    /\ Len(scan) = 2
    /\ scan[2].finding = "collision"
    /\ scan[2].used[blocks[2].addr_old] = 1

\* C10 (as claimed): nullify_homeless_addresses right after check_inverses
\* changes only pointer fields that stored a homeless address, each on the
\* block its Inverse was built from.
C10_PatchFrame ==
    [][(Checked /\ lastOp' \in {"nullify_homeless_addresses", "nullify_homeless_addresses raised"})
        => \A cell \in DOMAIN data :
              data'[cell] # data[cell] =>
                 /\ cell \in PointerCells
                 /\ data[cell] \in Range(homeless_addresses)
                 /\ ~HasBlockAt(data[cell])
                 /\ InverseAt(cell) \in DictGet(inverses, data[cell])]_vars
====
